---- MODULE Spec2Model ----
(***************************************************************************)
(* srt2voice: subtitle audio reconciliation.                               *)
(*                                                                         *)
(* One file conversion: cli.process_subtitles_with_fallback drives         *)
(* AudioProcessor.process_subtitles (src/audio/"processor 2.py") against   *)
(* one TTS backend at a time.  Times are integers in one unit (the code's  *)
(* milliseconds); a cue window is end - start, an audio buffer is known by *)
(* its length, the backend that made it, the cue it was made for and, while *)
(* the retry loop holds it, the attenuation level of its text.  A stored    *)
(* segment keeps length, backend and cue: every other buffer made for the   *)
(* same cue was over 1.5x and so differs from it in length.                 *)
(*                                                                         *)
(* The code compares the float quotient actual_duration / target_duration  *)
(* with 1.5 and 1.2; the model compares the exact quotient (2*a > 3*t,     *)
(* 5*a > 6*t).  The two agree except where the float quotient is within    *)
(* one unit in the last place of the threshold.                            *)
(*                                                                         *)
(* The timeline correction of src/audio/processor_old.py                   *)
(* (AudioProcessor.add_audio_segment, _handle_overlap) and of              *)
(* src/audio/timing.py (AudioTimingManager.check_and_adjust_audio) is      *)
(* modelled beside it, under SpecOverlap: one object of each class, built   *)
(* from one configuration, is called with buffers of any length.  A speed   *)
(* factor is an exact fraction <<numerator, denominator>>; int(x * 1000)    *)
(* of a time is the time in the model's unit.                               *)
(*                                                                         *)
(* TimingController (estimate_duration, optimize_punctuation), which       *)
(* "processor 2.py" imports from src/audio/timing.py, is not in the source  *)
(* tree; it is modelled from the specification's sections 4.1 and 4.2,      *)
(* under SpecEstimate and SpecAttenuate.  A text is a sequence of           *)
(* characters, each named by a string; an estimate is an integer number of  *)
(* 1/100000 s.  In the conversion every cue has the same text, with one    *)
(* mark of each pause class, and each backend call records the text it was *)
(* made with.                                                              *)
(*                                                                         *)
(* SpecSelection is the conversion of one two-cue file, for the backend     *)
(* the Coordinator selects; SpecInterrupt adds the signal handler that      *)
(* src/tts/gptsovits.py installs for SIGINT and SIGTERM.                    *)
(***************************************************************************)
EXTENDS Integers, Sequences, FiniteSets, TLC

\* ---------------------------------------------------------------- bounds
MaxCues == 2
MaxStart == 1
MaxDur == 4
MaxCalls == 2
MaxTextLen == 52
MaxMarks == 4

\* ------------------------------------------------------ program constants
max_retries == 3

\* Cue windows (end - start) that the inputs are drawn from.
CueWindows == {2}

\* Keys of config.services, in configuration order.
ServiceNames == <<"gpt_sovits", "google", "gemini">>

Services == {ServiceNames[i] : i \in 1..Len(ServiceNames)}

\* The service registry.
TTS_SERVICES == {"gpt_sovits", "google"}

Priorities == {1, 2}

\* What one backend call can do: return a buffer of some length, or raise.
ErrorKinds == {"transient", "permanent"}

BackendResults ==
    [kind : {"audio"}, dur : 0..MaxDur, error : {"none"}]
        \cup [kind : {"error"}, dur : {0}, error : ErrorKinds]

Cues == {[start |-> s, end |-> s + w] : s \in 0..MaxStart, w \in CueWindows}

CueLists == UNION {[1..n -> Cues] : n \in 1..MaxCues}

\* config.services as the fallback handler can find it: per key, the
\* enabled flag and the priority.
Configs == [enabled : [Services -> BOOLEAN], priority : [Services -> Priorities]]

VARIABLES
    subtitles,              \* the cue list handed to process_subtitles
    backend,                \* registry key of the service object in use
    original_service_name,  \* the Coordinator's name for the service in use
    failed_services,        \* the Coordinator's failed set
    pc,                     \* "running", "returned" or "raised"
    index,                  \* position of the cue being processed (1-based)
    retry_count,            \* _generate_subtitle_audio's counter
    attempts,               \* outcomes of the latest cue's backend calls
    audio,                  \* the buffer the latest successful call returned
    audio_segments,         \* AudioProcessor.audio_segments
    processing_stats,       \* AudioProcessor.processing_stats
    total_duration,         \* AudioProcessor.total_duration
    result,                 \* how the conversion ended
    track,                  \* the returned track, as a sequence of pieces
    exception,              \* the exception that left process_subtitles
    enabled_services,       \* the handler's sorted list of enabled services
    healthy,                \* services that initialised when the handler ran
    selected,               \* registry key of the handler's next_service
    config_services,        \* config.services as the handler read it
    interrupted,            \* <<index>> once SIGINT has been delivered
    manually_stopped,       \* GPTSoVITSService._manually_stopped
    overlap_handling,       \* config: 'speed_adjust', 'truncate' or 'warn_only'
    fade_duration_ms,       \* config: int(fade_duration * 1000)
    overlap_stats,          \* processor_old.AudioProcessor.overlap_stats
    timing_stats,           \* AudioTimingManager.stats
    placed_segments,        \* processor_old.AudioProcessor.audio_segments
    call,                   \* the latest timeline call: its inputs and outcome
    text,                   \* a cue text, as a sequence of characters
    estimated_duration,     \* the latest estimate_duration, in 1/100000 s
    text_op                 \* the latest operation on the text

vars == <<subtitles, backend, original_service_name, failed_services, pc,
          index, retry_count, attempts, audio, audio_segments, processing_stats,
          total_duration, result, track, exception, enabled_services,
          healthy, selected, config_services, interrupted, manually_stopped,
          overlap_handling,
          fade_duration_ms, overlap_stats,
          timing_stats, placed_segments, call, text, estimated_duration,
          text_op>>

\* What the whole-file conversion reads and writes.
conversion == <<subtitles, backend, original_service_name, failed_services,
                pc, index, retry_count, attempts, audio, audio_segments,
                processing_stats, total_duration, result, track, exception,
                enabled_services, healthy, selected, config_services,
                interrupted, manually_stopped>>

\* What the timeline correction reads and writes.
timeline == <<overlap_handling, fade_duration_ms, overlap_stats,
              timing_stats, placed_segments, call>>

\* What the duration estimate and the punctuation thinning read and write.
textual == <<text, estimated_duration, text_op>>

\* What only a signal writes.
interruption == <<interrupted, manually_stopped>>

\* What only the Coordinator's exception handling writes.
fallback == <<original_service_name, failed_services, exception,
              enabled_services, healthy, selected, config_services>>

\* ------------------------------------------------------------ statistics
ProcessingStatistics ==
    [total_segments |-> 0, text_optimized |-> 0, over_duration |-> 0,
     max_optimization_level |-> 0]

Max(a, b) == IF a >= b THEN a ELSE b

\* ----------------------------------------------------- duration checking
\* duration_ratio > 1.5, with duration_ratio = actual / target.
TooLong(actual, target) == 2 * actual > 3 * target

\* duration_ratio > 1.2.
SlightlyLong(actual, target) == 5 * actual > 6 * target

\* available_duration of a cue: its own window.
TargetDuration(cue) == cue.end - cue.start

\* --------------------------------------------------------- concatenation
NoResult == [kind |-> "none", error |-> "none", actual |-> 0, target |-> 0,
             retry_count |-> 0]

Silence(n) == [kind |-> "silence", len |-> n, cue |-> 0, by |-> "none"]

Piece(seg) == [kind |-> "audio", len |-> seg.dur, cue |-> seg.cue,
               by |-> seg.by]

\* Mutant: the segment list is concatenated in insertion order.
Unsorted(s) == s

\* list.sort(key=start_time): stable, ascending.
InsertByStart(s, x) ==
    LET n == Cardinality({i \in 1..Len(s) : s[i].start <= x.start})
    IN  SubSeq(s, 1, n) \o <<x>> \o SubSeq(s, n + 1, Len(s))

RECURSIVE SortByStart(_)
SortByStart(s) ==
    IF s = <<>> THEN <<>>
    ELSE InsertByStart(SortByStart(SubSeq(s, 1, Len(s) - 1)), s[Len(s)])

\* Mutant: no silence is put in front of a segment that starts after the
\* cursor.
ConcatStepNoGap(acc, seg) ==
    LET last == IF seg.start < acc.last_end_time
                THEN acc.last_end_time + seg.dur
                ELSE seg.start + seg.dur
    IN  [complete_audio |-> acc.complete_audio \o <<Piece(seg)>>,
         last_end_time |-> last]

\* Mutant: the cursor is set to the segment's nominal end.
ConcatStepNominalEnd(acc, seg) ==
    LET gap == IF seg.start > acc.last_end_time
               THEN <<Silence(seg.start - acc.last_end_time)>>
               ELSE <<>>
    IN  [complete_audio |-> acc.complete_audio \o gap \o <<Piece(seg)>>,
         last_end_time |-> seg.start + seg.dur]

\* One iteration of the concatenation loop.
ConcatStep(acc, seg) ==
    LET gap == IF seg.start > acc.last_end_time
               THEN <<Silence(seg.start - acc.last_end_time)>>
               ELSE <<>>
        last == IF seg.start < acc.last_end_time
                THEN acc.last_end_time + seg.dur
                ELSE seg.start + seg.dur
    IN  [complete_audio |-> acc.complete_audio \o gap \o <<Piece(seg)>>,
         last_end_time |-> last]

RECURSIVE ConcatLoop(_)
ConcatLoop(segs) ==
    IF segs = <<>> THEN [complete_audio |-> <<>>, last_end_time |-> 0]
    ELSE ConcatStep(ConcatLoop(SubSeq(segs, 1, Len(segs) - 1)),
                    segs[Len(segs)])

RECURSIVE TrackLen(_)
TrackLen(t) == IF t = <<>> THEN 0 ELSE t[1].len + TrackLen(Tail(t))

\* Mutant: no tail silence is added.
NoTailPad(complete_audio, total) == complete_audio

\* Tail silence up to the last cue's nominal end.
TailPad(complete_audio, total) ==
    IF total > 0 /\ TrackLen(complete_audio) < total
    THEN complete_audio \o <<Silence(total - TrackLen(complete_audio))>>
    ELSE complete_audio

\* _concatenate_audio on the sorted segment list.
ConcatenateAudio(sorted, total) ==
    IF sorted = <<>> THEN <<>>
    ELSE TailPad(ConcatLoop(sorted).complete_audio, total)

\* ------------------------------------------------- timeline correction
Min(a, b) == IF a <= b THEN a ELSE b

RECURSIVE GCD(_, _)
GCD(a, b) == IF b = 0 THEN a ELSE GCD(b, a % b)

\* The quotient n / d (d > 0) in lowest terms.
Ratio(n, d) == LET g == GCD(n, d) IN <<n \div g, d \div g>>

RatLeq(x, y) == x[1] * y[2] <= y[1] * x[2]

RatMax(x, y) == IF RatLeq(x, y) THEN y ELSE x

One == <<1, 1>>

\* speed_adjust_limit: 1.5 unless configured otherwise.
speed_adjust_limit == <<3, 2>>

OverlapPolicies == {"speed_adjust", "truncate", "warn_only"}

\* int(fade_duration * 1000): 0 is processor_old's default, > 0 timing.py's.
FadeDurations == {0, 1}

\* Windows end - start of the cues the timeline calls are made for.
TimelineWindows == {2, 3}

\* Start times of the cues the timeline calls are made for.
TimelineStarts == {1}

\* next_start_time - start_time, when a next cue is given.
NextGaps == {0, 1, 4}

\* Milliseconds by which a resampled buffer can exceed the exact quotient:
\* the new frame rate is truncated to an integer.
ResampleExcess == {0, 1}

OverlapStatistics ==
    [total_overlaps |-> 0, speed_adjusted |-> 0, truncated |-> 0,
     warned_only |-> 0, max_speed_factor |-> One, total_time_adjusted |-> 0]

\* AudioTimingManager.stats
TimingStats ==
    [overlaps_detected |-> 0, speed_adjustments |-> <<>>, truncations |-> 0]

\* A synthesized buffer of len milliseconds, as the backend returned it:
\* speed is the factor it has been resampled by, cut whether it has been
\* sliced, fade the length of the fade-out applied to it.
Sound(len) == [len |-> len, speed |-> One, cut |-> FALSE, fade |-> 0]

\* The length of a buffer resampled to factor x speed.
Resampled(len, factor, excess) == (len * factor[2]) \div factor[1] + excess

\* processor_old._adjust_audio_speed
AdjustAudioSpeed(a, factor, excess) ==
    IF factor = One THEN a
    ELSE [a EXCEPT !.len = Resampled(a.len, factor, excess),
                   !.speed = factor]

\* Mutant: truncation leaves the buffer as it is.
NoTruncate(a, max_duration_ms, fade_ms) == a

\* processor_old._truncate_with_fade
TruncateWithFade(a, max_duration_ms, fade_ms) ==
    IF a.len <= max_duration_ms THEN a
    ELSE [a EXCEPT !.len = max_duration_ms,
                   !.cut = TRUE,
                   !.fade = IF fade_ms > 0 /\ max_duration_ms > fade_ms
                            THEN fade_ms ELSE 0]

\* AudioTimingManager._adjust_speed
AdjustSpeed(a, factor, excess) ==
    IF ~RatLeq(factor, One)
    THEN [a EXCEPT !.len = Resampled(a.len, factor, excess),
                   !.speed = factor]
    ELSE a

\* AudioTimingManager._truncate_audio
TruncateAudio(a, max_duration_ms, fade_ms) ==
    IF a.len <= max_duration_ms THEN a
    ELSE [a EXCEPT !.len = max_duration_ms,
                   !.cut = TRUE,
                   !.fade = IF max_duration_ms > fade_ms THEN fade_ms ELSE 0]

\* available_duration in add_audio_segment; next_start is <<>> when None.
Available(start, end, next_start) ==
    IF next_start = <<>> THEN end - start
    ELSE Min(end - start, next_start[1] - start)

\* Mutant: a buffer that exactly fills the time available counts as overlap.
OverlapsOrFills(duration, available) == duration >= available

\* if audio_duration > available_duration
Overlaps(duration, available) == duration > available

\* Mutant: a factor equal to the limit is over the limit.
BelowLimit(factor) == RatLeq(factor, speed_adjust_limit) /\ factor # speed_adjust_limit

\* if speed_factor <= self.speed_adjust_limit
WithinLimit(factor) == RatLeq(factor, speed_adjust_limit)

\* Mutant: every policy other than speed_adjust truncates.
HandleOverlapTruncating(s, policy, a, available, fade_ms, excess) ==
    [audio |-> TruncateWithFade(a, available, fade_ms),
     overlap_stats |-> [s EXCEPT !.total_overlaps = @ + 1,
                                 !.truncated = @ + 1],
     error |-> "none"]

\* _handle_overlap: the buffer it returns and the statistics it leaves; with
\* no time available the speed factor is a division by zero.
HandleOverlap(s, policy, a, available, fade_ms, excess) ==
    LET s1 == [s EXCEPT !.total_overlaps = @ + 1]
        overlap_duration == a.len - available
    IN  IF policy = "speed_adjust"
        THEN IF available = 0
             THEN [audio |-> a, overlap_stats |-> s1,
                   error |-> "ZeroDivisionError"]
             ELSE LET speed_factor == Ratio(a.len, available)
                  IN  IF WithinLimit(speed_factor)
                      THEN [audio |-> AdjustAudioSpeed(a, speed_factor, excess),
                            overlap_stats |->
                                [s1 EXCEPT
                                   !.speed_adjusted = @ + 1,
                                   !.max_speed_factor = RatMax(@, speed_factor),
                                   !.total_time_adjusted = @ + overlap_duration],
                            error |-> "none"]
                      ELSE [audio |-> TruncateWithFade(a, available, fade_ms),
                            overlap_stats |-> [s1 EXCEPT !.truncated = @ + 1],
                            error |-> "none"]
        ELSE IF policy = "truncate"
        THEN [audio |-> TruncateWithFade(a, available, fade_ms),
              overlap_stats |-> [s1 EXCEPT !.truncated = @ + 1],
              error |-> "none"]
        ELSE [audio |-> a,
              overlap_stats |-> [s1 EXCEPT !.warned_only = @ + 1],
              error |-> "none"]

\* check_and_adjust_audio past the no-overlap return: the buffer and warning
\* it returns and the statistics it leaves.
AdjustOverlapping(s, policy, a, available, fade_ms, excess) ==
    LET s1 == [s EXCEPT !.overlaps_detected = @ + 1]
    IN  IF policy = "warn_only"
        THEN [audio |-> a, stats |-> s1, warning |-> "kept"]
        ELSE IF policy = "speed_adjust"
        THEN LET required_speed == Ratio(a.len, available)
             IN  IF WithinLimit(required_speed)
                 THEN [audio |-> AdjustSpeed(a, required_speed, excess),
                       stats |-> [s1 EXCEPT !.speed_adjustments =
                                               Append(@, required_speed)],
                       warning |-> "speed_adjusted"]
                 ELSE [audio |-> AdjustSpeed(a, speed_adjust_limit, excess),
                       stats |-> [s1 EXCEPT !.speed_adjustments =
                                               Append(@, speed_adjust_limit)],
                       warning |-> "speed_adjusted_to_limit"]
        ELSE IF policy = "truncate"
        THEN [audio |-> TruncateAudio(a, available, fade_ms),
              stats |-> [s1 EXCEPT !.truncations = @ + 1],
              warning |-> "truncated"]
        ELSE [audio |-> a, stats |-> s1, warning |-> "unknown_policy"]

NoCall ==
    [n |-> 0, by |-> "none", audio |-> Sound(0), start |-> 0, end |-> <<>>,
     next_start |-> <<>>, out |-> Sound(0), warning |-> "none",
     error |-> "none"]

\* The two objects as constructed, with the default configuration.
TimelineConstructed ==
    /\ overlap_stats = OverlapStatistics
    /\ timing_stats = TimingStats
    /\ placed_segments = <<>>
    /\ call = NoCall

\* -------------------------------------- duration estimate, thinning
\* One character of each class the estimator tells apart.
ClassOf(ch) ==
    CASE ch = "zh" -> "chinese"
      [] ch = "a" -> "english"
      [] ch = "1" -> "number"
      [] ch = " " -> "space"
      [] ch \in {"emdash", "ellipsis", "wave", "dun", "semicolon", "colon",
                 "middot", "fwcomma", "comma"} -> "punctuation"
      [] OTHER -> "default"

\* Seconds per character of a class, in 1/100 s.
CharDuration(class) ==
    CASE class = "chinese" -> 25
      [] class = "english" -> 8
      [] class = "number" -> 20
      [] class = "punctuation" -> 10
      [] class = "space" -> 5
      [] OTHER -> 20

RECURSIVE SumDurations(_)
SumDurations(t) ==
    IF t = <<>> THEN 0
    ELSE CharDuration(ClassOf(t[1])) + SumDurations(Tail(t))

Classes(t) == {ClassOf(t[i]) : i \in 1..Len(t)}

\* The length correction, in percent: 0.95 over 50 characters, 0.98 over 30.
LengthCorrection(n) == IF n > 50 THEN 95 ELSE IF n > 30 THEN 98 ELSE 100

\* The mixed-script penalty, in tenths: 1.1 when the text has at least two
\* of Chinese characters, English letters and digits.
MixedPenalty(t) ==
    IF Cardinality(Classes(t) \cap {"chinese", "english", "number"}) >= 2
    THEN 11 ELSE 10

\* estimate_duration(text), in 1/100000 s: the base pause is 0.1 s.
EstimateDuration(t) ==
    SumDurations(t) * LengthCorrection(Len(t)) * MixedPenalty(t) + 10000

\* Mutant: the long-pause list holds the doubled forms only.
doubled_long_pause ==
    << <<"emdash", "emdash">>, <<"ellipsis", "ellipsis">>, <<"wave">> >>

\* The punctuation marks of the three pause classes, each a substring, in
\* list order: both forms of the em dash and of the ellipsis and the wave
\* dash; enumeration comma ("dun"), semicolon, colon, middle dot; the
\* full-width and the ASCII comma.
long_pause ==
    << <<"emdash", "emdash">>, <<"emdash">>, <<"ellipsis", "ellipsis">>,
       <<"ellipsis">>, <<"wave">> >>

medium_pause == << <<"dun">>, <<"semicolon">>, <<"colon">>, <<"middot">> >>

short_pause == << <<"fwcomma">>, <<"comma">> >>

\* The marks removed at a level, in removal order.
MarksAt(level) ==
    IF level = 1 THEN long_pause
    ELSE IF level = 2 THEN long_pause \o medium_pause
    ELSE long_pause \o medium_pause \o short_pause

StartsWith(t, mark) ==
    Len(t) >= Len(mark) /\ SubSeq(t, 1, Len(mark)) = mark

\* text.replace(mark, ''): every occurrence, left to right, not overlapping.
RECURSIVE Strip(_, _)
Strip(t, mark) ==
    IF t = <<>> THEN <<>>
    ELSE IF StartsWith(t, mark)
    THEN Strip(SubSeq(t, Len(mark) + 1, Len(t)), mark)
    ELSE <<t[1]>> \o Strip(Tail(t), mark)

RECURSIVE StripAll(_, _)
StripAll(t, marks) ==
    IF marks = <<>> THEN t
    ELSE StripAll(Strip(t, marks[1]), Tail(marks))

\* optimize_punctuation(text, level): levels outside 1..3 change nothing.
OptimizePunctuation(t, level) ==
    IF level \in 1..3 THEN StripAll(t, MarksAt(level)) ELSE t

\* The latest operation on the text: what it was applied to (from), the
\* estimate before it, and the level and input of the operation before it.
NoTextOp == [op |-> "none", level |-> 0, from |-> <<>>, before |-> 0,
             previous |-> "none", origin |-> <<>>]

\* No text is being worked on.
TextIdle ==
    /\ text = <<>>
    /\ estimated_duration = 0
    /\ text_op = NoTextOp

\* ------------------------------------------------------------------ Init
\* getattr(tts_service.tts_service, 'name', 'unknown'): the service classes
\* set service_name and no attribute called name, so the default is taken.
ServiceNameOf(service) == "unknown"

NoAudio == [dur |-> 0, cue |-> 0, level |-> 0, by |-> "none"]

Init ==
    /\ subtitles \in CueLists
    /\ backend \in Services \cap TTS_SERVICES
    /\ original_service_name = ServiceNameOf(backend)
    /\ failed_services = {}
    /\ pc = "running"
    /\ index = 1
    /\ retry_count = 0
    /\ attempts = <<>>
    /\ audio = NoAudio
    /\ audio_segments = <<>>
    /\ processing_stats =
           [ProcessingStatistics EXCEPT !.total_segments = Len(subtitles)]
    /\ total_duration = subtitles[Len(subtitles)].end
    /\ result = NoResult
    /\ track = <<>>
    /\ exception = NoResult
    /\ enabled_services = <<>>
    /\ healthy = {}
    /\ selected = "none"
    /\ config_services = <<>>
    /\ interrupted = <<>>
    /\ manually_stopped = FALSE
    /\ overlap_handling = "speed_adjust"
    /\ fade_duration_ms = 0
    /\ TimelineConstructed
    /\ TextIdle

\* ------------------------------------------- the Coordinator's fallback
\* failed_services.add(original_service_name)
MarkFailed(failed, name) == failed \cup {name}

\* Mutant: of two entries of equal priority the later in the configuration
\* comes first.
InsertBeforeEqual(s, x) ==
    LET n == Cardinality({i \in 1..Len(s) : s[i].priority < x.priority})
    IN  SubSeq(s, 1, n) \o <<x>> \o SubSeq(s, n + 1, Len(s))

\* sorted(..., key=priority) over the enabled entries of config.services:
\* stable, ascending priority number.
InsertByPriority(s, x) ==
    LET n == Cardinality({i \in 1..Len(s) : s[i].priority <= x.priority})
    IN  SubSeq(s, 1, n) \o <<x>> \o SubSeq(s, n + 1, Len(s))

RECURSIVE EnabledUpTo(_, _)
EnabledUpTo(cfg, n) ==
    IF n = 0 THEN <<>>
    ELSE LET name == ServiceNames[n]
             before == EnabledUpTo(cfg, n - 1)
         IN  IF cfg.enabled[name]
             THEN InsertByPriority(before,
                      [name |-> name, priority |-> cfg.priority[name]])
             ELSE before

GetEnabledServices(cfg) == EnabledUpTo(cfg, Len(ServiceNames))

\* try_initialize_service: registered, enabled, constructed and healthy.
TryInitializeService(name, cfg, ok) ==
    /\ name \in TTS_SERVICES
    /\ cfg.enabled[name]
    /\ name \in ok

\* The search loop: the first enabled service, in priority order, that is
\* not in the failed set and initialises; 0 when there is none.
NextServiceIndex(list, failed, cfg, ok) ==
    LET found == {i \in 1..Len(list) :
                     /\ list[i].name \notin failed
                     /\ TryInitializeService(list[i].name, cfg, ok)}
    IN  IF found = {} THEN 0 ELSE CHOOSE i \in found : \A j \in found : i <= j

\* RuntimeError("... All services exhausted. Last error - Audio too long ...")
AllServicesExhausted(e) ==
    [kind |-> "RuntimeError", error |-> "all_services_exhausted",
     actual |-> e.actual, target |-> e.target, retry_count |-> 0]

\* ProgressTTSWrapper is a class local to process_srt; the reference to it in
\* process_subtitles_with_fallback finds no such global name.
WrapperNameError ==
    [kind |-> "NameError", error |-> "ProgressTTSWrapper", actual |-> 0,
     target |-> 0, retry_count |-> 0]

\* except AudioTooLongError as e: ...
FallbackHandler(e, cfg, ok) ==
    LET failed == MarkFailed(failed_services, original_service_name)
        list   == GetEnabledServices(cfg)
        i      == NextServiceIndex(list, failed, cfg, ok)
    IN  /\ failed_services' = failed
        /\ enabled_services' = list
        /\ healthy' = ok
        /\ config_services' = <<cfg>>
        /\ pc' = "raised"
        /\ IF i = 0
           THEN /\ selected' = "none"
                /\ result' = AllServicesExhausted(e)
                /\ UNCHANGED original_service_name
           ELSE /\ selected' = list[i].name
                /\ original_service_name' = list[i].name
                /\ result' = WrapperNameError

\* Mutant: the Coordinator's except clause catches every exception.
CatchesAnyException(e) == TRUE

\* The Coordinator's only except clause.
CoordinatorCatches(e) == e.kind = "AudioTooLongError"

\* An exception leaves process_subtitles and reaches the Coordinator.  The
\* service in use was initialised from an enabled, registered config entry.
Raise(e) ==
    /\ exception' = e
    /\ IF CoordinatorCatches(e)
       THEN \E cfg \in Configs, ok \in SUBSET TTS_SERVICES :
               /\ cfg.enabled[backend]
               /\ FallbackHandler(e, cfg, ok)
       ELSE /\ pc' = "raised"
            /\ result' = e
            /\ UNCHANGED <<failed_services, enabled_services, healthy,
                           selected, config_services,
                           original_service_name>>

\* ------------------------------------------------- the per-cue retry loop
Cue == subtitles[index]

\* Outcomes of the backend calls made so far for the cue at `index`.
CallsSoFar ==
    IF attempts # <<>> /\ attempts[Len(attempts)] = "accepted"
    THEN <<>> ELSE attempts

\* Mutant: the optimization level recorded is that of the latest accepted cue.
AcceptStatsLatestLevel(stats, dur, target, retries) ==
    LET s1 == IF retries > 0
              THEN [stats EXCEPT
                      !.text_optimized = @ + 1,
                      !.max_optimization_level = retries]
              ELSE stats
    IN  IF SlightlyLong(dur, target)
        THEN [s1 EXCEPT !.over_duration = @ + 1]
        ELSE s1

\* subtitle['content']: the text of every cue, with one mark of each pause
\* class.
CueContent == <<"a", "emdash", "dun", "fwcomma">>

\* Mutant: a retry thins the text of the attempt before it.
OptimizePrevious(original, current) == current

\* The text handed to optimize_punctuation on a retry: the cue's own.
OptimizeArgument(original, current) == original

\* estimate_duration(text) of the cue's text.
CueEstimate == EstimateDuration(CueContent)

\* The texts the retry loop can hold for a cue: its own and the thinned ones.
CueTexts ==
    {CueContent}
        \cup {OptimizePunctuation(CueContent, k) : k \in 1..(max_retries - 1)}

\* optimize_punctuation over those texts and the levels of the retries.
ThinnedCueText ==
    [t \in CueTexts, k \in 1..(max_retries - 1) |-> OptimizePunctuation(t, k)]

\* One pass of the loop up to the backend call: on a retry current_text is
\* optimize_punctuation(text, retry_count), and text_to_speech(current_text)
\* is called; the estimate is the one taken of the cue's text.
CallBackend ==
    /\ estimated_duration' = CueEstimate
    /\ IF retry_count > 0
       THEN /\ text' = ThinnedCueText[OptimizeArgument(CueContent, text),
                                      retry_count]
            /\ text_op' = [op |-> "optimize", level |-> retry_count,
                           from |-> OptimizeArgument(CueContent, text),
                           before |-> estimated_duration,
                           previous |-> IF text_op.op = "optimize"
                                        THEN text_op.level ELSE 0,
                           origin |-> text_op.from]
       ELSE /\ text' = CueContent
            /\ text_op' = NoTextOp

\* Statistics after accepting a buffer of length dur at this retry_count.
AcceptStats(stats, dur, target, retries) ==
    LET s1 == IF retries > 0
              THEN [stats EXCEPT
                      !.text_optimized = @ + 1,
                      !.max_optimization_level = Max(@, retries)]
              ELSE stats
    IN  IF SlightlyLong(dur, target)
        THEN [s1 EXCEPT !.over_duration = @ + 1]
        ELSE s1

\* The buffer text_to_speech returned for this attempt.
Buffer(dur) == [dur |-> dur, cue |-> index, level |-> retry_count,
                by |-> backend]

\* The pair add_audio_segment stores.
Segment(start_time, buf) ==
    [start |-> start_time, dur |-> buf.dur, cue |-> buf.cue, by |-> buf.by]

\* The call returned a buffer: a stopped GPT-SoVITS service raises before it
\* sends the request.
Returned(r) == r.kind = "audio" /\ ~manually_stopped

\* while retry_count < max_retries
InLoop == pc = "running" /\ retry_count < max_retries

\* Mutant: a retry is granted while the counter is below max_retries.
RetriesLeftUpToMax == retry_count < max_retries

\* if retry_count < max_retries - 1: another attempt, else give up.
RetriesLeft == retry_count < max_retries - 1

\* Mutant: a ratio of exactly 1.5 is rejected.
AcceptedBelow(dur, target) == 2 * dur < 3 * target

\* if duration_ratio > 1.5: retry or fail; else accept.
Accepted(dur, target) == ~TooLong(dur, target)

\* A backend call returned a buffer within 1.5x: accepted, next cue.
Accept(r) ==
    /\ InLoop
    /\ Returned(r)
    /\ Accepted(r.dur, TargetDuration(Cue))
    /\ index < Len(subtitles)
    /\ audio' = Buffer(r.dur)
    /\ processing_stats' =
           AcceptStats(processing_stats, r.dur, TargetDuration(Cue), retry_count)
    /\ audio_segments' = Append(audio_segments, Segment(Cue.start, audio'))
    /\ index' = index + 1
    /\ retry_count' = 0
    /\ attempts' = Append(CallsSoFar, "accepted")
    /\ CallBackend
    /\ UNCHANGED <<timeline, interruption>>
    /\ UNCHANGED <<subtitles, backend, pc, total_duration, result, track,
                   fallback>>

\* The last cue's buffer is accepted: sort, concatenate, pad, return.
AcceptLast(r) ==
    /\ InLoop
    /\ Returned(r)
    /\ Accepted(r.dur, TargetDuration(Cue))
    /\ index = Len(subtitles)
    /\ audio' = Buffer(r.dur)
    /\ processing_stats' =
           AcceptStats(processing_stats, r.dur, TargetDuration(Cue), retry_count)
    /\ audio_segments' =
           SortByStart(Append(audio_segments, Segment(Cue.start, audio')))
    /\ track' = ConcatenateAudio(audio_segments', total_duration)
    /\ attempts' = Append(CallsSoFar, "accepted")
    /\ pc' = "returned"
    /\ result' = [NoResult EXCEPT !.kind = "track"]
    /\ CallBackend
    /\ UNCHANGED <<timeline, interruption>>
    /\ UNCHANGED <<subtitles, backend, index, retry_count, total_duration,
                   fallback>>

\* Over 1.5x with attempts left: retry at the next attenuation level.
RetryTooLong(r) ==
    /\ InLoop
    /\ Returned(r)
    /\ ~Accepted(r.dur, TargetDuration(Cue))
    /\ RetriesLeft
    /\ audio' = Buffer(r.dur)
    /\ retry_count' = retry_count + 1
    /\ attempts' = Append(CallsSoFar, "too_long")
    /\ CallBackend
    /\ UNCHANGED <<timeline, interruption>>
    /\ UNCHANGED <<subtitles, backend, pc, index, audio_segments,
                   processing_stats, total_duration, result, track, fallback>>

\* raise RuntimeError(error_msg), with the target and actual durations.
GenerationFailed(actual, target) ==
    [kind |-> "RuntimeError", error |-> "generation_failed",
     actual |-> actual, target |-> target, retry_count |-> 0]

\* Over 1.5x on the last attempt: the error is raised inside the try block
\* and the except clause, with no attempts left, re-raises it.
FailTooLong(r) ==
    /\ InLoop
    /\ Returned(r)
    /\ ~Accepted(r.dur, TargetDuration(Cue))
    /\ ~RetriesLeft
    /\ audio' = Buffer(r.dur)
    /\ attempts' = Append(CallsSoFar, "too_long")
    /\ Raise(GenerationFailed(r.dur, TargetDuration(Cue)))
    /\ CallBackend
    /\ UNCHANGED <<timeline, interruption>>
    /\ UNCHANGED <<subtitles, backend, index, retry_count, audio_segments,
                   processing_stats, total_duration, track>>

\* Mutant: a permanent error is not retried.
RetryableUnlessPermanent(error) == RetriesLeft /\ error # "permanent"

\* except Exception: any exception is retried while attempts remain.
Retryable(error) == RetriesLeft

\* The exception a backend call raised, as it leaves the retry loop.
BackendError(error) ==
    [kind |-> "BackendError", error |-> error, actual |-> 0, target |-> 0,
     retry_count |-> 0]

\* Mutant: an exception retry does not draw on the attempt counter.
RetryErrorUncounted(r) ==
    /\ InLoop
    /\ r.kind = "error"
    /\ Retryable(r.error)
    /\ attempts' = Append(CallsSoFar, r.error)
    /\ CallBackend
    /\ UNCHANGED <<timeline, interruption>>
    /\ UNCHANGED <<subtitles, backend, pc, index, retry_count, audio,
                   audio_segments, processing_stats, total_duration, result,
                   track, fallback>>

\* The backend call raised and attempts remain.
RetryError(r) ==
    /\ InLoop
    /\ r.kind = "error"
    /\ Retryable(r.error)
    /\ retry_count' = retry_count + 1
    /\ attempts' = Append(CallsSoFar, r.error)
    /\ CallBackend
    /\ UNCHANGED <<timeline, interruption>>
    /\ UNCHANGED <<subtitles, backend, pc, index, audio, audio_segments,
                   processing_stats, total_duration, result, track, fallback>>

\* The backend call raised and the exception is not retried: re-raised as is.
FailError(r) ==
    /\ InLoop
    /\ r.kind = "error"
    /\ ~Retryable(r.error)
    /\ attempts' = Append(CallsSoFar, r.error)
    /\ Raise(BackendError(r.error))
    /\ CallBackend
    /\ UNCHANGED <<timeline, interruption>>
    /\ UNCHANGED <<subtitles, backend, index, retry_count, audio,
                   audio_segments, processing_stats, total_duration, track>>

Next ==
    \E r \in BackendResults :
        \/ Accept(r)
        \/ AcceptLast(r)
        \/ RetryTooLong(r)
        \/ FailTooLong(r)
        \/ RetryError(r)
        \/ FailError(r)

Spec == Init /\ [][Next]_vars

\* ------------------------------------------------------ a user interrupt
\* Services whose instances are in _active_services.
ActiveServices == {"gpt_sovits"}

\* SIGINT arrives between two backend calls.  Importing the tts package has
\* replaced Python's handler with _signal_handler, which cleans up the
\* active GPT-SoVITS instances and returns: no KeyboardInterrupt is raised.
Interrupt ==
    /\ pc = "running"
    /\ interrupted = <<>>
    /\ interrupted' = <<index>>
    /\ manually_stopped' = (backend \in ActiveServices)
    /\ UNCHANGED <<subtitles, backend, pc, index, retry_count, attempts,
                   audio, audio_segments, processing_stats, total_duration,
                   result, track, fallback>>
    /\ UNCHANGED <<timeline, textual>>

NextInterrupt ==
    \/ \E r \in BackendResults :
          \/ Accept(r)
          \/ AcceptLast(r)
          \/ RetryTooLong(r)
          \/ FailTooLong(r)
          \/ RetryError(r)
          \/ FailError(r)
    \/ Interrupt

SpecInterrupt == Init /\ [][NextInterrupt]_vars

\* ---------------------------------------- the escalation protocol, driven
\* The retry controller's documented failure: AudioTooLong(actual, target,
\* retry_count) when the last attempt is still over 1.5x.
AudioTooLongError(actual, target) ==
    [kind |-> "AudioTooLongError", error |-> "none", actual |-> actual,
     target |-> target, retry_count |-> max_retries]

SignalTooLong(r) ==
    /\ InLoop
    /\ Returned(r)
    /\ ~Accepted(r.dur, TargetDuration(Cue))
    /\ ~RetriesLeft
    /\ audio' = Buffer(r.dur)
    /\ attempts' = Append(CallsSoFar, "too_long")
    /\ Raise(AudioTooLongError(r.dur, TargetDuration(Cue)))
    /\ CallBackend
    /\ UNCHANGED <<timeline, interruption>>
    /\ UNCHANGED <<subtitles, backend, index, retry_count, audio_segments,
                   processing_stats, total_duration, track>>

NextEscalation ==
    \E r \in BackendResults :
        \/ Accept(r)
        \/ AcceptLast(r)
        \/ RetryTooLong(r)
        \/ SignalTooLong(r)
        \/ RetryError(r)
        \/ FailError(r)

SpecEscalation == Init /\ [][NextEscalation]_vars

\* The same protocol on one two-cue file, under every configuration and
\* every outcome of the health checks: the Coordinator's selection.
SelectionCues == <<[start |-> 0, end |-> 2], [start |-> 1, end |-> 3]>>

InitSelection ==
    /\ Init
    /\ subtitles = SelectionCues

SpecSelection == InitSelection /\ [][NextEscalation]_vars

\* ------------------------------------------- timeline correction, driven
\* No conversion is running while the timeline objects are exercised.
ConversionIdle ==
    /\ subtitles = <<>>
    /\ backend = "none"
    /\ original_service_name = "none"
    /\ failed_services = {}
    /\ pc = "idle"
    /\ index = 0
    /\ retry_count = 0
    /\ attempts = <<>>
    /\ audio = NoAudio
    /\ audio_segments = <<>>
    /\ processing_stats = ProcessingStatistics
    /\ total_duration = 0
    /\ result = NoResult
    /\ track = <<>>
    /\ exception = NoResult
    /\ enabled_services = <<>>
    /\ healthy = {}
    /\ selected = "none"
    /\ config_services = <<>>
    /\ interrupted = <<>>
    /\ manually_stopped = FALSE

\* AudioProcessor(config=...) and AudioTimingManager(...), built from one
\* audio_processing configuration.
InitOverlap ==
    /\ ConversionIdle
    /\ overlap_handling \in OverlapPolicies
    /\ fade_duration_ms \in FadeDurations
    /\ TimelineConstructed
    /\ TextIdle

\* Arguments of one timeline call: the cue's start, its end (<<>> when
\* add_audio_segment is given none) and the next cue's start (<<>> when none).
TimelineCalls ==
    {[start |-> s, end |-> <<s + w>>, next_start |-> <<s + g>>] :
        s \in TimelineStarts, w \in TimelineWindows, g \in NextGaps}
    \cup {[start |-> s, end |-> <<s + w>>, next_start |-> <<>>] :
             s \in TimelineStarts, w \in TimelineWindows}
    \cup {[start |-> s, end |-> <<>>, next_start |-> <<>>] :
             s \in TimelineStarts}

Called(by, c, a, out, warning, error) ==
    [n |-> call.n + 1, by |-> by, audio |-> a, start |-> c.start,
     end |-> c.end, next_start |-> c.next_start, out |-> out,
     warning |-> warning, error |-> error]

\* processor_old.AudioProcessor.add_audio_segment
AddAudioSegment(c, a, excess) ==
    /\ call.n < MaxCalls
    /\ IF c.end # <<>>
          /\ Overlaps(a.len, Available(c.start, c.end[1], c.next_start))
       THEN LET h == HandleOverlap(overlap_stats, overlap_handling, a,
                         Available(c.start, c.end[1], c.next_start),
                         fade_duration_ms, excess)
            IN  /\ overlap_stats' = h.overlap_stats
                /\ IF h.error = "none"
                   THEN /\ placed_segments' =
                               Append(placed_segments,
                                      [start |-> c.start, audio |-> h.audio])
                        /\ call' = Called("add_audio_segment", c, a, h.audio,
                                          "overlap", "none")
                   ELSE /\ placed_segments' = placed_segments
                        /\ call' = Called("add_audio_segment", c, a, a,
                                          "overlap", h.error)
       ELSE /\ placed_segments' =
                   Append(placed_segments, [start |-> c.start, audio |-> a])
            /\ call' = Called("add_audio_segment", c, a, a, "none", "none")
            /\ UNCHANGED overlap_stats
    /\ UNCHANGED <<overlap_handling, fade_duration_ms, timing_stats>>
    /\ UNCHANGED <<conversion, textual>>

\* AudioTimingManager.check_and_adjust_audio
CheckAndAdjustAudio(c, a, excess) ==
    /\ call.n < MaxCalls
    /\ c.end # <<>>
    /\ c.next_start = <<>>
    /\ IF ~Overlaps(a.len, c.end[1] - c.start)
       THEN /\ call' = Called("check_and_adjust_audio", c, a, a, "none", "none")
            /\ UNCHANGED timing_stats
       ELSE LET h == AdjustOverlapping(timing_stats, overlap_handling, a,
                         c.end[1] - c.start, fade_duration_ms, excess)
            IN  /\ timing_stats' = h.stats
                /\ call' = Called("check_and_adjust_audio", c, a, h.audio,
                                  h.warning, "none")
    /\ UNCHANGED <<overlap_handling, fade_duration_ms, overlap_stats,
                   placed_segments>>
    /\ UNCHANGED <<conversion, textual>>

NextOverlap ==
    \E c \in TimelineCalls, d \in 0..MaxDur, excess \in ResampleExcess :
        \/ AddAudioSegment(c, Sound(d), excess)
        \/ CheckAndAdjustAudio(c, Sound(d), excess)

SpecOverlap == InitOverlap /\ [][NextOverlap]_vars

\* ------------------------------------ duration estimate, thinning, driven
\* Neither a conversion nor a timeline call is going on.
TimelineIdle ==
    /\ overlap_handling = "speed_adjust"
    /\ fade_duration_ms = 0
    /\ TimelineConstructed

\* Characters the estimated texts are made of: one of each class.
EstimatorAlphabet == {"zh", "a", "1", " ", "comma", "kana"}

\* The texts the estimate is first taken of.
BaseTexts == UNION {[1..n -> EstimatorAlphabet] : n \in 1..2}

InitEstimate ==
    /\ ConversionIdle
    /\ TimelineIdle
    /\ text \in BaseTexts
    /\ estimated_duration = EstimateDuration(text)
    /\ text_op = NoTextOp

\* The text grows by one more of its last character, and is estimated again.
AppendCharacter(c) ==
    /\ Len(text) < MaxTextLen
    /\ c = text[Len(text)]
    /\ text' = Append(text, c)
    /\ estimated_duration' = EstimateDuration(text')
    /\ text_op' = [op |-> "append", level |-> 0, from |-> text,
                   before |-> estimated_duration, previous |-> text_op.op,
                   origin |-> text_op.from]
    /\ UNCHANGED <<conversion, timeline>>

NextEstimate == \E c \in EstimatorAlphabet : AppendCharacter(c)

SpecEstimate == InitEstimate /\ [][NextEstimate]_vars

\* Characters the thinned texts are made of: a letter and marks of the three
\* pause classes.
AttenuatorAlphabet == {"a", "emdash", "ellipsis", "wave", "dun", "fwcomma"}

MarkedTexts == UNION {[1..n -> AttenuatorAlphabet] : n \in 0..MaxMarks}

\* Levels the thinning is asked for: 1..3, and one on either side.
AttenuationLevels == 0..4

InitAttenuate ==
    /\ ConversionIdle
    /\ TimelineIdle
    /\ text \in MarkedTexts
    /\ estimated_duration = EstimateDuration(text)
    /\ text_op = NoTextOp

\* current_text = optimize_punctuation(text, level)
Attenuate(level) ==
    /\ text' = OptimizePunctuation(text, level)
    /\ estimated_duration' = EstimateDuration(text')
    /\ text_op' = [op |-> "optimize", level |-> level, from |-> text,
                   before |-> estimated_duration,
                   previous |-> IF text_op.op = "optimize"
                                THEN text_op.level ELSE 0,
                   origin |-> text_op.from]
    /\ UNCHANGED <<conversion, timeline>>

NextAttenuate == \E level \in AttenuationLevels : Attenuate(level)

SpecAttenuate == InitAttenuate /\ [][NextAttenuate]_vars

\* ================================================================ claims
Last(s) == s[Len(s)]

Range(s) == {s[i] : i \in 1..Len(s)}

AllTooLong == Len(attempts) = max_retries /\ Range(attempts) = {"too_long"}

\* C1: when every attempt for a cue is over 1.5x and no attempts remain, the
\* retry loop fails with AudioTooLongError carrying the actual duration, the
\* target duration and the retry count, and with no other exception type.
C1_ExhaustionRaisesAudioTooLong ==
    (pc = "raised" /\ AllTooLong) =>
        /\ exception.kind = "AudioTooLongError"
        /\ exception.actual = audio.dur
        /\ exception.target = TargetDuration(Cue)
        /\ exception.retry_count = max_retries

\* C2: at most max_retries backend calls are made for one cue, whatever the
\* backend does; overlength retries and exception retries share one counter
\* (the number of calls made for the cue is the retry counter).
C2_AtMostMaxRetriesCalls ==
    /\ Len(attempts) <= max_retries
    /\ pc = "running" => Len(CallsSoFar) = retry_count

C2_Witness ==
    /\ pc = "raised"
    /\ Len(attempts) = max_retries
    /\ "too_long" \in Range(attempts)
    /\ Range(attempts) \cap ErrorKinds # {}

\* C3: an attempt whose buffer has ratio <= 1.5 (1.5 included) is accepted
\* at once: that buffer is the one stored for the cue, and the loop moves to
\* the next cue or returns, making no further call for this cue.
C3_AcceptedWithoutRetry ==
    [][LET cue == subtitles[index]
       IN  (/\ Last(attempts') \notin ErrorKinds
            /\ ~TooLong(audio'.dur, TargetDuration(cue)))
           => /\ Last(attempts') = "accepted"
              /\ audio'.cue = index
              /\ audio'.level = retry_count
              /\ Len(audio_segments') = Len(audio_segments) + 1
              /\ Segment(cue.start, audio') \in Range(audio_segments')
              /\ \/ pc' = "running" /\ index' = index + 1 /\ retry_count' = 0
                 \/ /\ pc' = "returned"
                    /\ Piece(Segment(cue.start, audio')) \in Range(track')
      ]_vars

C3_Witness ==
    /\ attempts # <<>>
    /\ Last(attempts) = "accepted"
    /\ 2 * audio.dur = 3 * TargetDuration(subtitles[audio.cue])
    /\ audio.level > 0
    /\ Segment(subtitles[audio.cue].start, audio) \in Range(audio_segments)

\* C4: a cue that stays over 1.5x makes the Coordinator fall back to another
\* backend, so a conversion ends in failure on overlength only with the
\* all-services-exhausted error.
C4_OverlengthLeadsToFallback ==
    (pc = "raised" /\ Last(attempts) = "too_long") =>
        result.error = "all_services_exhausted"

C8_BackendErrorRetriedThenReraised ==
    (attempts # <<>> /\ Last(attempts) \in ErrorKinds) =>
        IF Len(attempts) < max_retries
        THEN pc = "running" /\ retry_count = Len(attempts)
        ELSE /\ pc = "raised"
             /\ exception = BackendError(Last(attempts))
             /\ result = exception
             /\ failed_services = {}
             /\ enabled_services = <<>>
             /\ selected = "none"
             /\ track = <<>>

C8_Witness ==
    /\ pc = "raised"
    /\ Len(attempts) = max_retries
    /\ Last(attempts) = "transient"
    /\ result = BackendError("transient")

\* C9 (as claimed): a permanent backend error is not retried; the call that
\* raised it is the cue's last call and the run is aborted.
C9_PermanentErrorNotRetried ==
    \A i \in 1..Len(attempts) :
        attempts[i] = "permanent" => (i = Len(attempts) /\ pc = "raised")

\* C9 (amended): a permanent backend error is retried like any other
\* exception while attempts remain; raised on the cue's last attempt it
\* leaves the loop as it is and aborts the run with no fallback.
C9_PermanentErrorRetriedLikeAny ==
    \A i \in 1..Len(attempts) :
        attempts[i] = "permanent" =>
            IF i < max_retries
            THEN Len(attempts) > i \/ (pc = "running" /\ retry_count = i)
            ELSE /\ pc = "raised"
                 /\ result = BackendError("permanent")
                 /\ failed_services = {}
                 /\ selected = "none"

C9_Witness ==
    /\ pc = "raised"
    /\ attempts = <<"permanent", "permanent", "permanent">>

\* C10: the returned track holds every cue's segment once, and a segment
\* with an earlier start_time lies before every segment with a later one,
\* whatever the insertion order.
AudioAt == {i \in 1..Len(track) : track[i].kind = "audio"}

C10_AscendingStartOrder ==
    pc = "returned" =>
        /\ \A c \in 1..Len(subtitles) :
              Cardinality({i \in AudioAt : track[i].cue = c}) = 1
        /\ \A i, j \in AudioAt :
              subtitles[track[i].cue].start < subtitles[track[j].cue].start
                  => i < j

C10_Witness ==
    /\ pc = "returned"
    /\ Len(subtitles) >= 2
    /\ subtitles[1].start > subtitles[2].start
    /\ Cardinality(AudioAt) = Len(subtitles)

\* C11: the returned track of a non-empty run is at least as long as the end
\* of the last cue handed in; when the audio placed for the cues (gaps
\* included) ends before that end, tail silence brings the track to exactly
\* that end, and otherwise nothing is appended after the last buffer.
LastAudioAt == CHOOSE i \in AudioAt : \A j \in AudioAt : j <= i

PlacedLen == TrackLen(SubSeq(track, 1, LastAudioAt))

AvailableTo(k) == Available(k.start, k.end[1], k.next_start)

\* The call k was made with a buffer longer than the time available.
Overlapping(k) == k.end # <<>> /\ k.audio.len > AvailableTo(k)

\* The number of truncations, and of speed adjustments, that the object
\* called by k has counted in the statistics (o, t).
TruncatedCount(k, o, t) ==
    IF k.by = "add_audio_segment" THEN o.truncated ELSE t.truncations

SpeedAdjustedCount(k, o, t) ==
    IF k.by = "add_audio_segment" THEN o.speed_adjusted
    ELSE Len(t.speed_adjustments)

\* C12: under speed_adjust, a buffer whose factor duration / available is
\* over speed_adjust_limit comes back cut to exactly the time available, at
\* its own speed, with a fade no longer than fade_duration; the truncation
\* count goes up by one and the speed-adjustment count stays.
C12_OverLimitIsTruncated ==
    [][(/\ overlap_handling = "speed_adjust"
        /\ Overlapping(call')
        /\ AvailableTo(call') > 0
        /\ ~RatLeq(Ratio(call'.audio.len, AvailableTo(call')),
                   speed_adjust_limit))
       => /\ call'.out.len = AvailableTo(call')
          /\ call'.out.cut
          /\ call'.out.speed = One
          /\ call'.out.fade <= fade_duration_ms
          /\ TruncatedCount(call', overlap_stats', timing_stats')
                 = TruncatedCount(call', overlap_stats, timing_stats) + 1
          /\ SpeedAdjustedCount(call', overlap_stats', timing_stats')
                 = SpeedAdjustedCount(call', overlap_stats, timing_stats)
      ]_vars

\* C13: under speed_adjust, a buffer whose factor is at most
\* speed_adjust_limit (the limit itself included) comes back resampled by
\* that factor, within a millisecond of the time available and not cut; the
\* speed-adjusted count goes up by one, max_speed_factor becomes the larger
\* of itself and the factor, total_time_adjusted grows by duration -
\* available, and no truncation is counted.
C13_WithinLimitIsSpedUp ==
    [][(/\ overlap_handling = "speed_adjust"
        /\ Overlapping(call')
        /\ AvailableTo(call') > 0
        /\ RatLeq(Ratio(call'.audio.len, AvailableTo(call')),
                  speed_adjust_limit))
       => LET factor == Ratio(call'.audio.len, AvailableTo(call'))
          IN  /\ call'.error = "none"
              /\ call'.out.speed = factor
              /\ ~call'.out.cut
              /\ call'.out.len - AvailableTo(call') \in ResampleExcess
              /\ SpeedAdjustedCount(call', overlap_stats', timing_stats')
                   = SpeedAdjustedCount(call', overlap_stats, timing_stats) + 1
              /\ TruncatedCount(call', overlap_stats', timing_stats')
                   = TruncatedCount(call', overlap_stats, timing_stats)
              /\ IF call'.by = "add_audio_segment"
                 THEN /\ RatLeq(overlap_stats.max_speed_factor,
                                overlap_stats'.max_speed_factor)
                      /\ RatLeq(factor, overlap_stats'.max_speed_factor)
                      /\ overlap_stats'.max_speed_factor
                            \in {overlap_stats.max_speed_factor, factor}
                      /\ overlap_stats'.total_time_adjusted =
                            overlap_stats.total_time_adjusted
                              + call'.audio.len - AvailableTo(call')
                 ELSE timing_stats'.speed_adjustments =
                          Append(timing_stats.speed_adjustments, factor)
      ]_vars

\* Two speed adjustments, the first at the limit itself and the second
\* below it: the maximum stays at the limit.
C13_Witness ==
    /\ overlap_handling = "speed_adjust"
    /\ call.by = "add_audio_segment"
    /\ overlap_stats.speed_adjusted = 2
    /\ overlap_stats.max_speed_factor = speed_adjust_limit
    /\ call.out.speed = <<4, 3>>
    /\ call.out.len = AvailableTo(call)
    /\ overlap_stats.total_time_adjusted = 2

\* C14: a buffer no longer than the time available (the smaller of end -
\* start and next_start - start when a next start is given) comes back as it
\* is under every policy, with no warning, and no statistic changes.
C14_FittingAudioUntouched ==
    [][(/\ call'.n = call.n + 1
        /\ call'.end # <<>>
        /\ call'.audio.len <= AvailableTo(call'))
       => /\ call'.out = call'.audio
          /\ call'.warning = "none"
          /\ call'.error = "none"
          /\ overlap_stats' = overlap_stats
          /\ timing_stats' = timing_stats
          /\ call'.by = "add_audio_segment" =>
                placed_segments' =
                    Append(placed_segments,
                           [start |-> call'.start, audio |-> call'.audio])
      ]_vars

\* A buffer that exactly fills a window cut short by the next cue's start.
C14_Witness ==
    /\ call.by = "add_audio_segment"
    /\ call.next_start # <<>>
    /\ call.next_start[1] < call.end[1]
    /\ AvailableTo(call) > 0
    /\ call.audio.len = AvailableTo(call)
    /\ call.out = call.audio
    /\ overlap_stats = OverlapStatistics

\* C15: under truncate, a buffer longer than the time available comes back
\* cut to exactly the time available whatever the factor, at its own speed,
\* and the truncation count goes up by exactly one.
C15_TruncateCutsToAvailable ==
    [][(/\ overlap_handling = "truncate"
        /\ Overlapping(call'))
       => /\ call'.error = "none"
          /\ call'.out.len = AvailableTo(call')
          /\ call'.out.cut
          /\ call'.out.speed = One
          /\ call'.out.fade <= fade_duration_ms
          /\ TruncatedCount(call', overlap_stats', timing_stats')
                 = TruncatedCount(call', overlap_stats, timing_stats) + 1
          /\ SpeedAdjustedCount(call', overlap_stats', timing_stats')
                 = SpeedAdjustedCount(call', overlap_stats, timing_stats)
      ]_vars

\* Truncations by both objects, one of a buffer within the speed limit and
\* one of a buffer over it.
C15_Witness ==
    /\ overlap_handling = "truncate"
    /\ overlap_stats.truncated = 1
    /\ timing_stats.truncations = 1
    /\ call.out.cut
    /\ call.out.len = AvailableTo(call)
    /\ RatLeq(Ratio(call.audio.len, AvailableTo(call)), speed_adjust_limit)
    /\ \E i \in 1..Len(placed_segments) :
          /\ placed_segments[i].audio.cut
          /\ placed_segments[i].audio.len = 1

\* C16: under warn_only, a buffer longer than the time available comes back
\* as it is, a warning is reported, the overlap is counted once, and no
\* speed-adjusted or truncated count changes.
C16_WarnOnlyKeepsAudio ==
    [][(/\ overlap_handling = "warn_only"
        /\ Overlapping(call'))
       => /\ call'.error = "none"
          /\ call'.out = call'.audio
          /\ call'.warning # "none"
          /\ TruncatedCount(call', overlap_stats', timing_stats')
                 = TruncatedCount(call', overlap_stats, timing_stats)
          /\ SpeedAdjustedCount(call', overlap_stats', timing_stats')
                 = SpeedAdjustedCount(call', overlap_stats, timing_stats)
          /\ IF call'.by = "add_audio_segment"
             THEN overlap_stats' =
                      [overlap_stats EXCEPT !.total_overlaps = @ + 1,
                                            !.warned_only = @ + 1]
             ELSE timing_stats' =
                      [timing_stats EXCEPT !.overlaps_detected = @ + 1]
      ]_vars

C16_Witness ==
    /\ overlap_handling = "warn_only"
    /\ overlap_stats.warned_only = 1
    /\ timing_stats.overlaps_detected = 1
    /\ Overlapping(call)
    /\ call.out.len > AvailableTo(call)
    /\ call.out = call.audio

\* ------------------------------------------- duration estimate, thinning
\* C17: a text that grows by one character of a class it already has does
\* not get a smaller estimate, at any length, the steps from 30 to 31 and
\* from 50 to 51 characters included.
C17_EstimateNonDecreasing ==
    [][text_op'.op = "append" => estimated_duration' >= estimated_duration
      ]_vars

\* C18: thinning at level 3 the result of a thinning at level 3 changes
\* nothing.
C18_Level3Idempotent ==
    [][(/\ text_op.op = "optimize"
        /\ text_op.level = 3
        /\ text_op'.level = 3)
       => text' = text
      ]_vars

\* Two level-3 passes over a text from which the first pass took a doubled
\* long-pause mark and a short-pause mark.
C18_Witness ==
    /\ text_op.op = "optimize"
    /\ text_op.level = 3
    /\ text_op.previous = 3
    /\ text_op.from = text
    /\ text = <<"a">>
    /\ Len(text_op.origin) = MaxMarks
    /\ {"emdash", "fwcomma", "a"} \subseteq Range(text_op.origin)
    /\ \E i \in 1..(Len(text_op.origin) - 1) :
          /\ text_op.origin[i] = "emdash"
          /\ text_op.origin[i + 1] = "emdash"

\* ------------------------------------------------------ escalation, again
\* Position of the selected service in the handler's list; the search loop
\* tried every entry before it, and every entry when it selected none.
SelectedAt ==
    IF selected = "none" THEN Len(enabled_services) + 1
    ELSE CHOOSE i \in 1..Len(enabled_services) :
             enabled_services[i].name = selected

\* Registered, enabled services the search loop tried to initialise and
\* whose health check failed.
HealthFailed ==
    {enabled_services[i].name : i \in 1..(SelectedAt - 1)}
        \cap (TTS_SERVICES \ healthy)

C21_CountersChangeOnAcceptOnly ==
    [][LET a == retry_count
           target == subtitles[index].end - subtitles[index].start
           accepted == index' = index + 1 \/ pc' = "returned"
       IN  IF accepted
           THEN /\ 2 * audio'.dur <= 3 * target
                /\ processing_stats'.text_optimized =
                       processing_stats.text_optimized
                           + (IF a > 0 THEN 1 ELSE 0)
                /\ processing_stats'.max_optimization_level =
                       Max(processing_stats.max_optimization_level, a)
                /\ processing_stats'.over_duration =
                       processing_stats.over_duration
                           + (IF 5 * audio'.dur > 6 * target THEN 1 ELSE 0)
                /\ processing_stats'.total_segments =
                       processing_stats.total_segments
           ELSE processing_stats' = processing_stats
      ]_vars

\* Two cues accepted after retries, the first at attempt 2 and the second at
\* attempt 1 with a buffer of exactly 1.5x: the maximum level stays at 2.
C21_Witness ==
    /\ pc = "returned"
    /\ Len(subtitles) = 2
    /\ processing_stats.text_optimized = 2
    /\ processing_stats.max_optimization_level = 2
    /\ processing_stats.over_duration = 1
    /\ audio.level = 1
    /\ 2 * audio.dur = 3 * TargetDuration(subtitles[audio.cue])

\* ----------------------------------------------------------- statistics
\* No field of the processing statistics s is larger than it is in t.
ProcessingLeq(s, t) ==
    /\ s.total_segments <= t.total_segments
    /\ s.text_optimized <= t.text_optimized
    /\ s.over_duration <= t.over_duration
    /\ s.max_optimization_level <= t.max_optimization_level

\* No field of the overlap statistics s is larger than it is in t.
OverlapLeq(s, t) ==
    /\ s.total_overlaps <= t.total_overlaps
    /\ s.speed_adjusted <= t.speed_adjusted
    /\ s.truncated <= t.truncated
    /\ s.warned_only <= t.warned_only
    /\ RatLeq(s.max_speed_factor, t.max_speed_factor)
    /\ s.total_time_adjusted <= t.total_time_adjusted

ConfigOrder(name) == CHOOSE i \in 1..Len(ServiceNames) : ServiceNames[i] = name

\* The services the handler could take: enabled in the configuration it
\* read, not in the failed set, registered, and passing the health check.
Selectable ==
    {n \in Services : /\ config_services[1].enabled[n]
                      /\ n \notin failed_services
                      /\ n \in TTS_SERVICES \cap healthy}

AfterIteration(k) == ConcatLoop(SubSeq(audio_segments, 1, k))

\* What iteration k appended to the track.
AppendedBy(k) ==
    SubSeq(AfterIteration(k).complete_audio,
           Len(AfterIteration(k - 1).complete_audio) + 1,
           Len(AfterIteration(k).complete_audio))

\* Where the buffer of segment k begins in the track.
BeginsAt(k) ==
    TrackLen(AfterIteration(k).complete_audio) - audio_segments[k].dur

\* The track the loop built is the returned track up to the tail silence.
LoopBuiltTrack ==
    LET built == AfterIteration(Len(audio_segments)).complete_audio
    IN  /\ Len(built) <= Len(track)
        /\ SubSeq(track, 1, Len(built)) = built

\* C24: in the returned track, a segment that starts after the cursor is
\* preceded by silence of exactly the difference and begins at its start; a
\* segment that starts before the cursor is appended whole at the cursor,
\* with no silence, and begins later than its start; either way the cursor
\* becomes max(cursor, start) + duration, and no segment begins before its
\* start.
C24_GapOrAppendAtCursor ==
    pc = "returned" =>
        /\ LoopBuiltTrack
        /\ AfterIteration(0).last_end_time = 0
        /\ \A k \in 1..Len(audio_segments) :
              LET seg == audio_segments[k]
                  cursor_ms == AfterIteration(k - 1).last_end_time
              IN  /\ seg.start > cursor_ms =>
                         /\ AppendedBy(k) =
                                <<Silence(seg.start - cursor_ms), Piece(seg)>>
                         /\ BeginsAt(k) = seg.start
                  /\ seg.start < cursor_ms =>
                         /\ AppendedBy(k) = <<Piece(seg)>>
                         /\ BeginsAt(k) = cursor_ms
                         /\ BeginsAt(k) > seg.start
                  /\ AfterIteration(k).last_end_time =
                         Max(cursor_ms, seg.start) + seg.dur
                  /\ BeginsAt(k) >= seg.start

\* Both cases in one track: the first segment starts after the cursor and
\* the second, with the same start, before it.
C24_Witness ==
    /\ pc = "returned"
    /\ Len(audio_segments) = 2
    /\ audio_segments[1].start = 1
    /\ audio_segments[2].start = 1
    /\ audio_segments[1].dur = 3
    /\ audio_segments[2].dur = 2
    /\ track = <<Silence(1), Piece(audio_segments[1]),
                 Piece(audio_segments[2])>>

\* --------------------------------------------------- the text synthesised
\* The cue's text with the marks of levels 1 and 2 taken out.
ExpectedText ==
    [k \in 1..(max_retries - 1) |-> StripAll(CueContent, MarksAt(k))]

\* C25: the first call for a cue is made with the cue's text as it is, and
\* the call after k failed calls, over-long buffers and backend exceptions
\* alike, with optimize_punctuation(the cue's text, k): the cue's own text
\* is thinned, at level k, and never the text of the attempt before; a cue
\* accepted after a backend exception is counted in text_optimized.
C25_RetryThinsOriginalAtLevelK ==
    [][LET k == Len(CallsSoFar)
       IN  /\ k = retry_count
           /\ IF k = 0
              THEN text' = CueContent /\ text_op'.op = "none"
              ELSE /\ text_op'.op = "optimize"
                   /\ text_op'.level = k
                   /\ text_op'.from = CueContent
                   /\ text' = ExpectedText[k]
           /\ (/\ Last(attempts') = "accepted"
               /\ Range(CallsSoFar) \cap ErrorKinds # {})
              => /\ text' # CueContent
                 /\ processing_stats'.text_optimized =
                        processing_stats.text_optimized + 1
      ]_vars

\* A cue accepted on its third call, after a backend exception and an
\* over-long buffer: the call was made with the cue's text thinned at
\* level 2.
C25_Witness ==
    /\ attempts = <<"transient", "too_long", "accepted">>
    /\ text_op.op = "optimize"
    /\ text_op.level = 2
    /\ text_op.from = CueContent
    /\ text = <<"a", "fwcomma">>
    /\ processing_stats.text_optimized >= 1

\* ------------------------------------------------------------- interrupt
\* C26: once an interrupt has been delivered, on whatever backend, no call
\* is made for a cue after the one that was being worked on, and no track is
\* returned.
C26_InterruptStopsAtCueBoundary ==
    interrupted # <<>> =>
        /\ pc # "returned"
        /\ index = interrupted[1]

RECURSIVE SumOfDurations(_)
SumOfDurations(segs) ==
    IF segs = <<>> THEN 0 ELSE segs[1].dur + SumOfDurations(Tail(segs))

IsAudio(piece) == piece.kind = "audio"

IsSilence(piece) == piece.kind = "silence"

\* C28: after every iteration of the concatenation loop the cursor equals
\* the length of the track built so far; the track before tail padding is as
\* long as all the buffers and all the gap silences together, and its audio
\* pieces are the buffers of the sorted segments, whole and in order.
C28_CursorIsTrackLength ==
    pc = "returned" =>
        /\ \A k \in 0..Len(audio_segments) :
              AfterIteration(k).last_end_time =
                  TrackLen(AfterIteration(k).complete_audio)
        /\ LET built == AfterIteration(Len(audio_segments)).complete_audio
           IN  /\ LoopBuiltTrack
               /\ TrackLen(built) =
                      SumOfDurations(audio_segments)
                          + TrackLen(SelectSeq(built, IsSilence))
               /\ SelectSeq(built, IsAudio) =
                      [k \in 1..Len(audio_segments) |->
                          Piece(audio_segments[k])]

\* A track with a gap before its first buffer and a second buffer appended
\* at the cursor, after its nominal start.
C28_Witness ==
    /\ pc = "returned"
    /\ Len(audio_segments) = 2
    /\ audio_segments[1].start = 1
    /\ audio_segments[1].dur = 2
    /\ audio_segments[2].start = 1
    /\ audio_segments[2].dur = 3
    /\ AfterIteration(1).last_end_time = 3
    /\ AfterIteration(2).last_end_time = 6
    /\ TrackLen(track) = 6

\* ---------------------------------------------------- overlap statistics
\* C29: whatever calls add_audio_segment has had since the statistics were
\* last reset, total_overlaps is the sum of speed_adjusted, truncated and
\* warned_only, and is no more than the number of segments added.
C29_EveryOverlapCountedOnce ==
    /\ overlap_stats.total_overlaps =
           overlap_stats.speed_adjusted + overlap_stats.truncated
               + overlap_stats.warned_only
    /\ overlap_stats.total_overlaps <= Len(placed_segments)

\* ------------------------------------------------------ the retry counter
\* C30: the retry counter is always in 0..max_retries - 1, the level asked
\* of optimize_punctuation is only ever 1 or 2, and max_optimization_level
\* is never over 2.
C30_RetryCounterBelowMax ==
    /\ retry_count \in 0..(max_retries - 1)
    /\ text_op.op = "optimize" => text_op.level \in {1, 2}
    /\ audio.level \in 0..(max_retries - 1)
    /\ processing_stats.max_optimization_level <= max_retries - 1

\* A cue accepted on its last attempt, made at level 2.
C30_Witness ==
    /\ Len(attempts) = max_retries
    /\ Last(attempts) = "accepted"
    /\ text_op.op = "optimize"
    /\ text_op.level = max_retries - 1
    /\ audio.level = max_retries - 1
    /\ processing_stats.max_optimization_level = max_retries - 1

====
